---- MODULE Spec2Model ----
(***************************************************************************)
(* Model of yukw777/stanford_alpaca: the fine-tuning script train.py       *)
(* (prompt formatting, tokenizer setup, batched tokenization, trainer       *)
(* hand-off) and the dataset splitting script train_val_split.py.           *)
(*                                                                          *)
(* Encoding of Python values:                                               *)
(*   str   a sequence of atoms (words); "" is << >>, + is \o                *)
(*   dict  a function whose DOMAIN is the set of keys present               *)
(*   None  as a field value: PyNone, a one-atom sequence whose atom no     *)
(*         string holds; as a token name: the string "None"                 *)
(*   an exception: a record [raised |-> <exception name>, value |-> ...]    *)
(***************************************************************************)
EXTENDS Integers, Sequences, FiniteSets, Bags, TLC

VARIABLES
    example,     \* generate_prompt: the dict object the caller passes
    arg0,        \* generate_prompt: that dict as it was when the call began
    ret,         \* generate_prompt: what the call returned or raised
    tokenizer,   \* the tokenizer object (train.py:99)
    pretrained,  \* the tokenizer as from_pretrained returned it
    batch,       \* batch_tokenize: the batch dict {"prompt": [...]}
    tokenized,   \* batch_tokenize: the returned dict {"input_ids": [...]}
    pc,          \* train(): position in the function
    args,        \* parsed command line of the running script
    model,       \* train(): the model handle
    data_file,   \* records of the json file the script reads
    rows,        \* train(): rows of the dataset the running map reads
    out,         \* train(): rows the running map has written so far
    dataset,     \* train(): the variable `dataset` (train.py:134)
    error,       \* train(): the exception that ended the run, or "none"
    trainer,     \* train(): state of the Trainer
    last,        \* train_val_split.py: the most recent run
    prev,        \* train_val_split.py: the run before it
    disk,        \* train_val_split.py: what is stored at train_val_dataset_file
    entropy,     \* the seed the OS would give an unseeded generator
    generator    \* the permutation the library's generator yields per seed

vars == <<example, arg0, ret, tokenizer, pretrained, batch, tokenized, pc, args,
          model, data_file, rows, out, dataset, error, trainer, last, prev,
          disk, entropy, generator>>

formatVars == <<example, arg0, ret>>
tokVars == <<tokenizer, pretrained, batch, tokenized>>
trainVars == <<pc, args, model, data_file, rows, out, dataset, error, trainer>>
splitVars == <<last, prev, disk, entropy, generator>>

----------------------------------------------------------------------------
(* Bounds of the model *)

\* longest instruction / input / output text, in atoms
MaxTextLen == 1
\* most records in a data file given to train.py
MaxExamples == 3
\* rows per batch of the batched map (the library default is 1000)
BatchSize == 2
\* most prompts in one batch handed directly to batch_tokenize
MaxBatch == 2
\* most rows in a dataset given to train_val_split.py
MaxSplitLen == 3

----------------------------------------------------------------------------
(* Strings and dicts *)

\* words that occur in the text fields of the records
UserWords == {"Summarize.", "doc"}

SeqsUpTo(S, n) == UNION {[1..k -> S] : k \in 0..n}

Texts == SeqsUpTo(UserWords, MaxTextLen)

\* the value None of a field, and str(value) / format(value, "")
PyNone == <<"<class 'NoneType'>">>
Str(v) == IF v = PyNone THEN <<"None">> ELSE v

Lit(s) == [kind |-> "lit", text |-> s]
Field(k) == [kind |-> "field", text |-> k]

\* dict.get(key, default)
Get(d, key, default) == IF key \in DOMAIN d THEN d[key] ELSE default

\* d[key] = value
SetItem(d, key, value) ==
    [k \in DOMAIN d \cup {key} |-> IF k = key THEN value ELSE d[k]]

\* a dict without the keys in ks
RemoveColumns(d, ks) == [k \in DOMAIN d \ ks |-> d[k]]

RECURSIVE Concat(_)
Concat(ss) == IF ss = << >> THEN << >> ELSE Head(ss) \o Concat(Tail(ss))

Contains(text, atom) == \E i \in 1..Len(text) : text[i] = atom

EndsWith(text, atom) == Len(text) > 0 /\ text[Len(text)] = atom

----------------------------------------------------------------------------
(* train.py: the prompt templates and generate_prompt *)

PROMPT_INPUT ==
    << Lit("Below is an instruction that describes a task, paired with an input that provides further context. "),
       Lit("Write a response that appropriately completes the request.\n\n"),
       Lit("### Instruction:"), Lit("\n"), Field("instruction"), Lit("\n\n"),
       Lit("### Input:"), Lit("\n"), Field("input"), Lit("\n\n"),
       Lit("### Response:") >>

PROMPT_NO_INPUT ==
    << Lit("Below is an instruction that describes a task. "),
       Lit("Write a response that appropriately completes the request.\n\n"),
       Lit("### Instruction:"), Lit("\n"), Field("instruction"), Lit("\n\n"),
       Lit("### Response:") >>

\* str.format_map(mapping): every {key} replaced by format(mapping[key], ""),
\* which is "None" for None; KeyError when a key of the template is not in
\* the mapping
format_map(template, mapping) ==
    IF \E i \in 1..Len(template) :
           template[i].kind = "field" /\ template[i].text \notin DOMAIN mapping
    THEN [raised |-> "KeyError", value |-> << >>]
    ELSE [raised |-> "none",
          value |-> Concat([i \in 1..Len(template) |->
                       IF template[i].kind = "field"
                       THEN Str(mapping[template[i].text])
                       ELSE <<template[i].text>>])]

\* the template generate_prompt selects: None is not equal to ""
SelectTemplate(e) ==
    IF Get(e, "input", << >>) = << >> THEN PROMPT_NO_INPUT ELSE PROMPT_INPUT

\* generate_prompt(example): the returned dict (the argument itself, with
\* "prompt" set), or the exception format_map raised
generate_prompt(e) ==
    LET prompt == format_map(SelectTemplate(e), e)
    IN  IF prompt.raised # "none"
        THEN [raised |-> prompt.raised, value |-> e]
        ELSE [raised |-> "none", value |-> SetItem(e, "prompt", prompt.value)]

\* the caller's dict after generate_prompt(example): the function assigns
\* example["prompt"] on the object it was given
ExampleAfterCall(e) == generate_prompt(e).value

----------------------------------------------------------------------------
(* The tokenizer object of the transformers library, as train.py uses it *)

\* the tokens of the vocabulary, in id order (id = position - 1); "doc" is
\* not in it and is encoded as the unknown token
TokenList ==
    << "<unk>", "<s>", "</s>", "<pad>", "<|endoftext|>", "Summarize.",
       "### Instruction:", "### Input:", "### Response:", "\n", "\n\n",
       "Below is an instruction that describes a task, paired with an input that provides further context. ",
       "Below is an instruction that describes a task. ",
       "Write a response that appropriately completes the request.\n\n" >>

Vocab == [t \in {TokenList[i] : i \in 1..Len(TokenList)} |->
             (CHOOSE i \in 1..Len(TokenList) : TokenList[i] = t) - 1]

\* values of --model_max_length
ModelMaxLengths == {2, 8}

\* the tokenizers AutoTokenizer.from_pretrained can return: a LLaMA-like one
\* (distinct unk / bos / eos, bos prepended), a GPT-2-like one (a single
\* special token for unk / bos / eos, no bos prepended), each with or without
\* a padding token
PretrainedTokenizers ==
    {[pad_token |-> p, unk_token |-> s[1], bos_token |-> s[2], eos_token |-> s[3],
      add_bos_token |-> s[4], vocab |-> Vocab, model_max_length |-> m] :
        p \in {"None", "<pad>"},
        s \in {<<"<unk>", "<s>", "</s>", TRUE>>,
               <<"<|endoftext|>", "<|endoftext|>", "<|endoftext|>", FALSE>>},
        m \in ModelMaxLengths}

\* tokenizer.convert_tokens_to_ids for one token
TokenId(tok, t) ==
    IF t \in DOMAIN tok.vocab THEN tok.vocab[t] ELSE tok.vocab[tok.unk_token]

eos_token_id(tok) == TokenId(tok, tok.eos_token)
pad_token_id(tok) == TokenId(tok, tok.pad_token)

\* the ids of one text; truncated to model_max_length only when the caller
\* passes truncation=True
Encode(tok, text, truncation) ==
    LET ids == (IF tok.add_bos_token THEN <<TokenId(tok, tok.bos_token)>> ELSE << >>)
               \o [i \in 1..Len(text) |-> TokenId(tok, text[i])]
    IN  IF truncation /\ Len(ids) > tok.model_max_length
        THEN SubSeq(ids, 1, tok.model_max_length)
        ELSE ids

\* train.py:85  tokenizer(example["prompt"], return_attention_mask=False):
\* no truncation argument is given, and the library's default is no truncation
TokenizerCall(tok, texts) ==
    [input_ids |-> [i \in 1..Len(texts) |-> Encode(tok, texts[i], FALSE)]]

\* batch_tokenize as it would be if the end-of-sequence id were appended only
\* while the sequence is shorter than model_max_length
batch_tokenizeWithinLimit(tok, ex) ==
    LET tokenized_prompt == TokenizerCall(tok, ex["prompt"])
    IN  [input_ids |-> [i \in 1..Len(tokenized_prompt.input_ids) |->
            IF Len(tokenized_prompt.input_ids[i]) < tok.model_max_length
            THEN Append(tokenized_prompt.input_ids[i], eos_token_id(tok))
            ELSE tokenized_prompt.input_ids[i]]]

\* batch_tokenize as it would be if it returned the batch in reverse order
batch_tokenizeReversed(tok, ex) ==
    LET tokenized_prompt == TokenizerCall(tok, ex["prompt"])
        n == Len(tokenized_prompt.input_ids)
    IN  [input_ids |-> [i \in 1..n |->
            Append(tokenized_prompt.input_ids[n + 1 - i], eos_token_id(tok))]]

\* batch_tokenize(tokenizer, example)
batch_tokenize(tok, ex) ==
    LET tokenized_prompt == TokenizerCall(tok, ex["prompt"])
    IN  [input_ids |-> [i \in 1..Len(tokenized_prompt.input_ids) |->
                           Append(tokenized_prompt.input_ids[i], eos_token_id(tok))]]

\* train.py:102-107: the padding token falls back to the unknown token
SetupPadToken(tok) ==
    IF tok.pad_token = "None"
    THEN [tok EXCEPT !.pad_token = tok.unk_token]
    ELSE tok

----------------------------------------------------------------------------
(* Values of the variables a specification does not use *)

NotCalled == [raised |-> "not called", value |-> << >>]
NoTokens == [called |-> FALSE, value |-> [input_ids |-> << >>]]
NoBatch == [prompt |-> << >>]
NoRun == [ran |-> FALSE, seed |-> 0, raised |-> "none", train |-> << >>,
          validation |-> << >>, train_indices |-> << >>, test_indices |-> << >>]
NotSaved == [saved |-> FALSE, train |-> << >>, validation |-> << >>]
Unassigned == [assigned |-> FALSE, train |-> << >>]

IdleFormat == example = << >> /\ arg0 = << >> /\ ret = NotCalled
IdleBatch == batch = NoBatch /\ tokenized = NoTokens
IdleTokenizer ==
    /\ tokenizer = CHOOSE t \in PretrainedTokenizers : TRUE
    /\ pretrained = tokenizer
IdleTrain ==
    /\ pc = "idle" /\ args = [model_max_length |-> 0, use_lora_8bit |-> FALSE]
    /\ model = "none"
    /\ data_file = << >> /\ rows = << >> /\ out = << >> /\ dataset = Unassigned
    /\ error = "none" /\ trainer = "none"
IdleSplit ==
    /\ last = NoRun /\ prev = NoRun /\ disk = NotSaved /\ entropy = 0
    /\ generator = << >>

----------------------------------------------------------------------------
(* generate_prompt called on any record *)

\* train.py:136  remove_columns
Keys == {"instruction", "input", "output"}

\* the dicts generate_prompt can be given: each field absent, None or a string
Examples == UNION {[K -> Texts \cup {PyNone}] : K \in SUBSET Keys}

InitFormat ==
    /\ example \in Examples
    /\ arg0 = example
    /\ ret = NotCalled
    /\ IdleTokenizer /\ IdleBatch /\ IdleTrain /\ IdleSplit

\* ret = generate_prompt(example)
CallGeneratePrompt ==
    /\ arg0' = example
    /\ ret' = generate_prompt(example)
    /\ example' = ExampleAfterCall(example)
    /\ UNCHANGED <<tokVars, trainVars, splitVars>>

NextFormat == CallGeneratePrompt

SpecFormat == InitFormat /\ [][NextFormat]_vars

----------------------------------------------------------------------------
(* batch_tokenize called on any batch of prompts *)

\* the prompts of a batch: any text, empty and longer than a field included
PromptTexts == SeqsUpTo(UserWords, MaxTextLen + 1)

InitTokenize ==
    /\ pretrained \in PretrainedTokenizers
    /\ tokenizer = SetupPadToken(pretrained)
    /\ batch \in {[prompt |-> ps] : ps \in SeqsUpTo(PromptTexts, MaxBatch)}
    /\ tokenized = NoTokens
    /\ IdleFormat /\ IdleTrain /\ IdleSplit

\* tokenized = batch_tokenize(tokenizer, batch)
CallBatchTokenize ==
    /\ ~tokenized.called
    /\ tokenized' = [called |-> TRUE, value |-> batch_tokenize(tokenizer, batch)]
    /\ UNCHANGED <<tokenizer, pretrained, batch, formatVars, trainVars, splitVars>>

NextTokenize == CallBatchTokenize

SpecTokenize == InitTokenize /\ [][NextTokenize]_vars

----------------------------------------------------------------------------
(* train.py: train() *)

\* records of a data file: empty input, non-empty input, no input field, no
\* instruction field, no output field
TrainExamples ==
    { [instruction |-> <<"Summarize.">>, input |-> << >>, output |-> <<"doc">>],
      [instruction |-> <<"Summarize.">>, input |-> <<"doc">>, output |-> <<"doc">>],
      [instruction |-> <<"doc">>, output |-> <<"Summarize.">>],
      [input |-> <<"doc">>, output |-> <<"doc">>],
      [instruction |-> <<"doc">>, input |-> << >>] }

\* the columns of the table load_dataset("json") builds: every key of
\* every record
Columns(f) == UNION {DOMAIN f[i] : i \in 1..Len(f)}

\* the rows of that table: every row has every column, None where the
\* record has no such key
LoadRows(f) ==
    [i \in 1..Len(f) |->
        [c \in Columns(f) |-> IF c \in DOMAIN f[i] THEN f[i][c] ELSE PyNone]]

DataFiles == SeqsUpTo(TrainExamples, MaxExamples) \ {<< >>}

Min(a, b) == IF a < b THEN a ELSE b

\* the rows of the next batch of a batched map, `done` rows being mapped
NextBatch(rs, done) == SubSeq(rs, done + 1, done + Min(BatchSize, Len(rs) - done))

\* the batch dict a batched map passes to its function: column -> list
BatchOf(rs) == [prompt |-> [i \in 1..Len(rs) |-> rs[i]["prompt"]]]

\* train.py:137 on one batch: the rows of the batch with the returned
\* column added and "prompt" removed
MapBatch(tok, rs) ==
    LET returned == batch_tokenize(tok, BatchOf(rs))
    IN  [i \in 1..Len(rs) |->
            SetItem(RemoveColumns(rs[i], {"prompt"}), "input_ids", returned.input_ids[i])]

Init ==
    /\ pc = "tokenizer"
    /\ args \in [model_max_length : ModelMaxLengths, use_lora_8bit : BOOLEAN]
    /\ data_file \in DataFiles
    /\ model = "none" /\ rows = << >> /\ out = << >> /\ dataset = Unassigned
    /\ error = "none" /\ trainer = "none"
    /\ IdleTokenizer /\ IdleBatch /\ IdleFormat /\ IdleSplit

\* train.py:99-107
SetupTokenizer ==
    /\ pc = "tokenizer"
    /\ \E t \in PretrainedTokenizers :
          /\ t.model_max_length = args.model_max_length
          /\ pretrained' = t
          /\ tokenizer' = SetupPadToken(t)
    /\ pc' = "model"
    /\ UNCHANGED <<args, model, data_file, rows, out, dataset, error, trainer,
                   batch, tokenized, formatVars, splitVars>>

\* train.py:109-132
LoadModel ==
    /\ pc = "model"
    /\ model' = IF args.use_lora_8bit THEN "lora_8bit" ELSE "full"
    /\ pc' = "load_dataset"
    /\ UNCHANGED <<args, data_file, rows, out, dataset, error, trainer,
                   tokVars, formatVars, splitVars>>

\* train.py:135
LoadDataset ==
    /\ pc = "load_dataset"
    /\ rows' = LoadRows(data_file)
    /\ out' = << >>
    /\ pc' = "map_prompt"
    /\ UNCHANGED <<args, model, data_file, dataset, error, trainer,
                   tokVars, formatVars, splitVars>>

\* train.py:136, one row: .map(generate_prompt, remove_columns=[...]); map
\* raises ValueError, before any row, when a column to remove is not a
\* column of the dataset
MapGeneratePrompt ==
    /\ pc = "map_prompt"
    /\ LET r == generate_prompt(rows[Len(out) + 1])
           written == Append(out, RemoveColumns(r.value, Keys))
       IN  IF ~(Keys \subseteq DOMAIN rows[1])
           THEN /\ error' = "ValueError"
                /\ pc' = "failed"
                /\ out' = << >>
                /\ rows' = rows
           ELSE IF r.raised # "none"
           THEN /\ error' = r.raised
                /\ pc' = "failed"
                /\ out' = << >>
                /\ rows' = rows
           ELSE IF Len(written) = Len(rows)
           THEN /\ rows' = written
                /\ out' = << >>
                /\ pc' = "map_tokenize"
                /\ error' = error
           ELSE /\ out' = written
                /\ UNCHANGED <<rows, pc, error>>
    /\ UNCHANGED <<args, model, data_file, dataset, trainer,
                   tokVars, formatVars, splitVars>>

\* train.py:137, one batch: .map(partial(batch_tokenize, tokenizer),
\* batched=True, remove_columns="prompt"); the assignment of line 134 follows
\* the last batch
MapBatchTokenize ==
    /\ pc = "map_tokenize"
    /\ LET written == out \o MapBatch(tokenizer, NextBatch(rows, Len(out)))
       IN  IF Len(written) = Len(rows)
           THEN /\ dataset' = [assigned |-> TRUE, train |-> written]
                /\ rows' = written
                /\ out' = << >>
                /\ pc' = "trainer"
           ELSE /\ out' = written
                /\ UNCHANGED <<rows, pc, dataset>>
    /\ UNCHANGED <<args, model, data_file, error, trainer,
                   tokVars, formatVars, splitVars>>

\* train.py:139-151
Train ==
    /\ pc = "trainer"
    /\ trainer' = "trained"
    /\ pc' = "save_model"
    /\ UNCHANGED <<args, model, data_file, rows, out, dataset, error,
                   tokVars, formatVars, splitVars>>

\* train.py:152
SaveModel ==
    /\ pc = "save_model"
    /\ trainer' = "saved"
    /\ pc' = "done"
    /\ UNCHANGED <<args, model, data_file, rows, out, dataset, error,
                   tokVars, formatVars, splitVars>>

Next ==
    \/ SetupTokenizer
    \/ LoadModel
    \/ LoadDataset
    \/ MapGeneratePrompt
    \/ MapBatchTokenize
    \/ Train
    \/ SaveModel

Spec == Init /\ [][Next]_vars

----------------------------------------------------------------------------
(* train_val_split.py *)

\* train_val_split.py:9  --seed default
DefaultSeed == 42

\* values given to --seed
SeedValues == {7}

\* the seeds a run can use
Seeds == {DefaultSeed} \cup SeedValues

\* the seeds the OS may give a generator that is created without one
EntropyValues == Seeds

\* rows of a dataset file; two equal lines are two rows
SplitRows == {"a", "b"}

SplitFiles == SeqsUpTo(SplitRows, MaxSplitLen) \ {<< >>}

\* the command lines: [val_set_size, seed], seed << >> when --seed is omitted
CommandLines(n) ==
    [val_set_size : -1..(n + 1), seed : {<< >>} \cup {<<v>> : v \in SeedValues}]

\* the seed as it would be if --seed had no default: an unseeded generator
\* takes its seed from the OS
ParseSeedUnseeded(argv) ==
    IF argv.seed = << >> THEN entropy ELSE argv.seed[1]

\* args.seed after parse_args (train_val_split.py:9-10)
ParseSeed(argv) == IF argv.seed = << >> THEN DefaultSeed ELSE argv.seed[1]

\* the permutations of 1..n
PermutationsOf(n) ==
    {p \in [1..n -> 1..n] : \A i, j \in 1..n : p[i] = p[j] => i = j}

\* default_rng(seed).permutation(n): some permutation of 1..n that the seed
\* and n determine; which one is the library's matter, and `generator` holds
\* an arbitrary choice
Permutation(seed, n) == generator[<<seed, n>>]

\* Dataset.select(indices)
Select(d, indices) == [i \in 1..Len(indices) |-> d[indices[i]]]

\* train_test_split as it would be if the train rows began one place late
train_test_splitDropsRow(d, test_size, seed) ==
    LET n_samples == Len(d)
        n_test == test_size
        n_train == n_samples - n_test
        permutation == Permutation(seed, n_samples)
        test_indices == SubSeq(permutation, 1, n_test)
        train_indices == SubSeq(permutation, n_test + 2, n_test + n_train)
    IN  IF test_size >= n_samples \/ test_size <= 0
        THEN [raised |-> "ValueError", train |-> << >>, test |-> << >>,
              train_indices |-> << >>, test_indices |-> << >>]
        ELSE [raised |-> "none",
              train |-> Select(d, train_indices), test |-> Select(d, test_indices),
              train_indices |-> train_indices, test_indices |-> test_indices]

\* train_test_split as it would be if it rejected only a negative test_size
train_test_splitAllowsZero(d, test_size, seed) ==
    LET n_samples == Len(d)
        n_test == test_size
        n_train == n_samples - n_test
        permutation == Permutation(seed, n_samples)
        test_indices == SubSeq(permutation, 1, n_test)
        train_indices == SubSeq(permutation, n_test + 1, n_test + n_train)
    IN  IF test_size >= n_samples \/ test_size < 0
        THEN [raised |-> "ValueError", train |-> << >>, test |-> << >>,
              train_indices |-> << >>, test_indices |-> << >>]
        ELSE [raised |-> "none",
              train |-> Select(d, train_indices), test |-> Select(d, test_indices),
              train_indices |-> train_indices, test_indices |-> test_indices]

\* train_val_split.py:13  train_test_split(test_size=<int>, shuffle=True, seed=seed)
train_test_split(d, test_size, seed) ==
    LET n_samples == Len(d)
        n_test == test_size
        n_train == n_samples - n_test
        permutation == Permutation(seed, n_samples)
        test_indices == SubSeq(permutation, 1, n_test)
        train_indices == SubSeq(permutation, n_test + 1, n_test + n_train)
    IN  IF test_size >= n_samples \/ test_size <= 0
        THEN [raised |-> "ValueError", train |-> << >>, test |-> << >>,
              train_indices |-> << >>, test_indices |-> << >>]
        ELSE [raised |-> "none",
              train |-> Select(d, train_indices), test |-> Select(d, test_indices),
              train_indices |-> train_indices, test_indices |-> test_indices]

InitSplit ==
    /\ data_file \in SplitFiles
    /\ args \in CommandLines(Len(data_file))
    /\ entropy \in EntropyValues
    /\ generator \in [Seeds \X {Len(data_file)} -> PermutationsOf(Len(data_file))]
    /\ last = NoRun /\ prev = NoRun /\ disk = NotSaved
    /\ pc = "idle" /\ model = "none" /\ rows = << >> /\ out = << >>
    /\ dataset = Unassigned /\ error = "none" /\ trainer = "none"
    /\ IdleTokenizer /\ IdleBatch /\ IdleFormat

\* one run of the script on the command line and the file (train_val_split.py:5-15)
RunSplit ==
    /\ LET seed == ParseSeed(args)
           train_val == train_test_split(data_file, args.val_set_size, seed)
       IN  /\ last' = [ran |-> TRUE, seed |-> seed, raised |-> train_val.raised,
                       train |-> train_val.train, validation |-> train_val.test,
                       train_indices |-> train_val.train_indices,
                       test_indices |-> train_val.test_indices]
           /\ disk' = IF train_val.raised = "none"
                      THEN [saved |-> TRUE, train |-> train_val.train,
                            validation |-> train_val.test]
                      ELSE disk
    /\ prev' = last
    /\ entropy' \in EntropyValues
    /\ generator' = generator
    /\ UNCHANGED <<pc, args, model, data_file, rows, out, dataset, error, trainer,
                   tokVars, formatVars>>

NextSplit == RunSplit

SpecSplit == InitSplit /\ [][NextSplit]_vars

----------------------------------------------------------------------------
(* Properties *)

\* the record's input is a non-empty string
HasInput(e) == "input" \in DOMAIN e /\ e["input"] # << >> /\ e["input"] # PyNone

\* C1 as stated: for every record of the file, the prompt formatted for it
\* has the "### Input:" marker if and only if the record's input is a
\* non-empty string; when input is empty or absent the prompt has no
\* "### Input:" and ends with "### Response:".
C1_TemplateSelection ==
    pc = "map_tokenize" =>
        \A i \in 1..Len(data_file) :
            LET prompt == rows[i]["prompt"]
            IN  /\ HasInput(data_file[i]) <=> Contains(prompt, "### Input:")
                /\ EndsWith(prompt, "### Response:")

\* C9 as stated: generate_prompt leaves the record passed to it unchanged and
\* returns that record's fields plus a prompt field.
C9_RecordUnchanged ==
    ret.raised = "none" =>
        /\ example = arg0
        /\ ret.value = SetItem(arg0, "prompt", ret.value["prompt"])

\* C2: for every prompt of the batch, input_ids is the tokenizer's id
\* sequence for that prompt followed by exactly one end-of-sequence id, so its
\* last element is the end-of-sequence id.
C2_EosAppended ==
    tokenized.called =>
        LET ids == tokenized.value.input_ids
            enc == TokenizerCall(tokenizer, batch.prompt).input_ids
        IN  /\ Len(ids) = Len(batch.prompt)
            /\ \A i \in 1..Len(ids) :
                  /\ ids[i] = enc[i] \o <<eos_token_id(tokenizer)>>
                  /\ ids[i][Len(ids[i])] = eos_token_id(tokenizer)
                  /\ Len(ids[i]) = Len(enc[i]) + 1

\* C2 witness: a batch has been tokenized in which one prompt has an empty
\* tokenizer output and another is model_max_length tokens long
C2_Witness ==
    /\ tokenized.called
    /\ LET enc == TokenizerCall(tokenizer, batch.prompt).input_ids
       IN  /\ \E i \in 1..Len(enc) : enc[i] = << >>
           /\ \E i \in 1..Len(enc) : Len(enc[i]) = tokenizer.model_max_length

\* C3 as stated: every row of the built dataset has at most model_max_length
\* input_ids.
C3_WithinMaxLength ==
    dataset.assigned =>
        \A i \in 1..Len(dataset.train) :
            Len(dataset.train[i]["input_ids"]) <= tokenizer.model_max_length

\* the row the build produces for one row of the loaded table: its prompt
\* tokenized alone
TokenizedRow(tok, e) ==
    [input_ids |->
        batch_tokenize(tok, [prompt |-> <<generate_prompt(e).value["prompt"]>>]).input_ids[1]]

LacksInstruction(e) == "instruction" \notin DOMAIN e

\* C8 as stated: when some record of the file lacks instruction, the build
\* fails: no dataset is assigned, the trainer is never started, and a run
\* that has left the first map has failed.
C8_BuildAborts ==
    (\E i \in 1..Len(data_file) : LacksInstruction(data_file[i])) =>
        /\ ~dataset.assigned
        /\ trainer = "none"
        /\ pc \in {"tokenizer", "model", "load_dataset", "map_prompt", "failed"}

\* C10 as stated: after tokenizer setup, a tokenizer that had no padding token
\* pads with its unknown token and its vocabulary is as it was, a tokenizer
\* that had one is as it was, and the setup has not made the end-of-sequence
\* id the padding id.
C10_PadIsNotEos ==
    pc \notin {"idle", "tokenizer"} =>
        /\ pretrained.pad_token = "None" =>
              /\ tokenizer.pad_token = pretrained.unk_token
              /\ tokenizer.vocab = pretrained.vocab
        /\ pretrained.pad_token # "None" => tokenizer = pretrained
        /\ tokenizer.pad_token # pretrained.pad_token =>
              pad_token_id(tokenizer) # eos_token_id(tokenizer)

RECURSIVE BagOfSeq(_)
BagOfSeq(q) ==
    IF q = << >> THEN EmptyBag ELSE BagOfSeq(Tail(q)) (+) SetToBag({Head(q)})

Range(q) == {q[i] : i \in 1..Len(q)}

\* C4: after a run that succeeded, train and validation select disjoint sets
\* of rows of the file that together are all of its rows, each once;
\* validation has val_set_size rows and the two have as many as the file.
C4_Partition ==
    (last.ran /\ last.raised = "none") =>
        /\ Range(last.train_indices) \cap Range(last.test_indices) = {}
        /\ Range(last.train_indices) \cup Range(last.test_indices) = 1..Len(data_file)
        /\ last.train = Select(data_file, last.train_indices)
        /\ last.validation = Select(data_file, last.test_indices)
        /\ Len(last.validation) = args.val_set_size
        /\ Len(last.train) + Len(last.validation) = Len(data_file)
        /\ BagOfSeq(last.train) (+) BagOfSeq(last.validation) = BagOfSeq(data_file)
        /\ disk = [saved |-> TRUE, train |-> last.train, validation |-> last.validation]

\* C4 witness: a file of three rows, two of them equal, has been split with
\* more than one row on each side
C4_Witness ==
    /\ last.ran /\ last.raised = "none"
    /\ Len(data_file) >= 3
    /\ Cardinality(Range(data_file)) < Len(data_file)
    /\ Len(last.train) >= 1 /\ Len(last.validation) >= 2

\* C5 as stated: a run succeeds exactly when 0 <= val_set_size < len(D), and
\* a failed run persists nothing.
C5_SucceedsFromZero ==
    last.ran =>
        /\ last.raised = "none" <=>
              (0 <= args.val_set_size /\ args.val_set_size < Len(data_file))
        /\ last.raised # "none" => ~disk.saved

\* C5 amended: a run succeeds exactly when 0 < val_set_size < len(D); with
\* val_set_size <= 0 (zero included) or val_set_size >= len(D) it fails with
\* the library's ValueError and persists nothing.
C5_SucceedsAboveZero ==
    last.ran =>
        /\ last.raised = "none" <=>
              (0 < args.val_set_size /\ args.val_set_size < Len(data_file))
        /\ last.raised # "none" => (last.raised = "ValueError" /\ ~disk.saved)
        /\ last.raised = "none" => disk.saved

\* C5 witness: a run with val_set_size 0 has failed and nothing is stored
C5_Witness ==
    /\ last.ran
    /\ args.val_set_size = 0
    /\ last.raised = "ValueError"
    /\ ~disk.saved

\* C6: two runs on the same file with the same val_set_size and the same
\* --seed (42 when omitted) end alike: the same error, or the same train and
\* validation rows in the same order.
C6_Reproducible ==
    /\ (prev.ran /\ last.ran) =>
          /\ prev.raised = last.raised
          /\ prev.train = last.train
          /\ prev.validation = last.validation
          /\ prev.train_indices = last.train_indices
          /\ prev.test_indices = last.test_indices
    /\ (last.ran /\ args.seed = << >>) => last.seed = 42

\* C6 witness: the script has run twice without --seed on a file it can split
C6_Witness ==
    /\ prev.ran /\ last.ran
    /\ last.raised = "none"
    /\ args.seed = << >>
    /\ Len(data_file) >= 2

====
